---------------------------- MODULE Spec2Model ----------------------------
(***************************************************************************)
(* Model of ImageProjector (automatic-z-projections/z-projection_v2.py):   *)
(* focus scoring, boundary-aware range selection, projection, the          *)
(* per-timepoint loop of process_tiff_file and the batch loop of run().    *)
(*                                                                         *)
(* Arrays are sequences.  Python indices are 0-based and TLA+ sequences    *)
(* are 1-based: every index kept in a variable or returned by an operator  *)
(* is the Python (0-based) value, and element i of an array a is a[i + 1]. *)
(* A plane (Y, X) is flattened to the sequence of its pixels, a volume     *)
(* (Z, Y, X) is a sequence of planes, an acquisition (T, Z, Y, X) is a     *)
(* sequence of volumes.                                                    *)
(***************************************************************************)
EXTENDS Integers, Sequences, FiniteSets, TLC

VARIABLES
    projection_type,   \* self.projection_type
    z_range,           \* self.z_range
    report_data,       \* self.report_data: stem -> the five audit lists
    processed_count,   \* self.processed_count
    listing,           \* self.folder.iterdir(): the names, in directory order
    disk,              \* the folder: name -> directory entry
    saved,             \* self.output_dir: stem -> the stack written by imsave
    report_file,       \* TRUE once projection_report.xlsx is written
    stdout,            \* the lines printed by process_tiff_file/save_report
    pc,                \* position in run()
    queue,             \* what is left of sorted(self.folder.iterdir())
    img,               \* locals of process_tiff_file ...
    t,
    img_proj_tp,
    timepoints,
    n_proj_z,
    proj_types,
    start_z,
    stop_z,
    call,              \* a single call of one method: its name and arguments
    ret                \* ... and what it returned

self == <<projection_type, z_range, report_data, processed_count>>
locals == <<img, t, img_proj_tp, timepoints, n_proj_z, proj_types, start_z, stop_z>>
harness == <<call, ret>>
vars == <<projection_type, z_range, report_data, processed_count, listing, disk,
          saved, report_file, stdout, pc, queue, img, t, img_proj_tp,
          timepoints, n_proj_z, proj_types, start_z, stop_z, call, ret>>

---------------------------------------------------------------------------
(* Bounds of the model. *)

MaxZ == 3          \* depth of the volume of a single call: 1..MaxZ
MaxSlices == 6     \* slices of an acquisition: T * Z <= MaxSlices
MaxZRange == 2     \* z_range: 0..MaxZRange
MaxTotalZ == 6     \* total_z of a single calculate_projection_range call
MaxPix == 2        \* pixel values 0..MaxPix of a single focus-scoring call
MaxFiles == 2      \* directory entries of a batch

(* The unsigned 16-bit domain of np.uint16. *)
UInt16Mod == 65536

(* The rules a run may be configured with; 'median' is not supported. *)
ProjectionTypes == {"max", "mean", "median"}

---------------------------------------------------------------------------
(* Helpers over sequences. *)

RECURSIVE SumSeq(_)
SumSeq(s) == IF s = <<>> THEN 0 ELSE Head(s) + SumSeq(Tail(s))

SeqsUpTo(S, n) == UNION {[1..k -> S] : k \in 1..n}

(* range(start, stop) *)
range(start, stop) == [i \in 1..(IF stop > start THEN stop - start ELSE 0) |-> start + i - 1]

(* ndarray.take(indices, axis=0) *)
take(arr, indices) == [i \in 1..Len(indices) |-> arr[indices[i] + 1]]

min(a, b) == IF a < b THEN a ELSE b
max(a, b) == IF a > b THEN a ELSE b

---------------------------------------------------------------------------
(* get_focused_z_slice *)

(* image.std(axis=(1, 2)) of one plane.  The standard deviation of a plane *)
(* of N pixels is sqrt(N*sum(x^2) - sum(x)^2) / N; every plane of a volume *)
(* has the same N, so the order of the scores (all that argmax reads) is   *)
(* the order of the integer N*sum(x^2) - sum(x)^2, which is kept here.     *)
PlaneStd(plane) ==
    Len(plane) * SumSeq([i \in 1..Len(plane) |-> plane[i] * plane[i]])
        - SumSeq(plane) * SumSeq(plane)

std(image) == [z \in 1..Len(image) |-> PlaneStd(image[z])]

(* ndarray.argmax(): a left-to-right scan that moves only on a strictly    *)
(* greater value.  best is the 0-based index of the maximum of a[1..i].    *)
RECURSIVE ArgmaxLastScan(_, _, _)
ArgmaxLastScan(a, i, best) ==
    IF i > Len(a) THEN best
    ELSE IF a[i] >= a[best + 1] THEN ArgmaxLastScan(a, i + 1, i - 1)
    ELSE ArgmaxLastScan(a, i + 1, best)

RECURSIVE ArgmaxScan(_, _, _)
ArgmaxScan(a, i, best) ==
    IF i > Len(a) THEN best
    ELSE IF a[i] > a[best + 1] THEN ArgmaxScan(a, i + 1, i - 1)
    ELSE ArgmaxScan(a, i + 1, best)

argmaxLast(a) == ArgmaxLastScan(a, 2, 0)

argmax(a) == ArgmaxScan(a, 2, 0)

get_focused_z_slice(image) ==
    LET std_devs == std(image)
        best_z == argmax(std_devs)
    IN  <<std_devs, best_z>>

---------------------------------------------------------------------------
(* calculate_projection_range *)

RangeNoSlide(best_z, total_z) ==
    LET start == best_z - z_range
        stop == best_z + z_range + 1
        n_slices == 2 * z_range + 1
    IN  IF start < 0 THEN <<0, min(stop, total_z), n_slices>>
        ELSE IF stop > total_z THEN <<start, total_z, n_slices>>
        ELSE <<start, stop, n_slices>>

RangeNoUpperClamp(best_z, total_z) ==
    LET start == best_z - z_range
        stop == best_z + z_range + 1
        n_slices == 2 * z_range + 1
    IN  IF start < 0 THEN <<0, min(n_slices, total_z), n_slices>>
        ELSE <<start, stop, n_slices>>

calculate_projection_range(best_z, total_z) ==
    LET start == best_z - z_range
        stop == best_z + z_range + 1
        n_slices == 2 * z_range + 1
    IN  IF start < 0 THEN <<0, min(n_slices, total_z), n_slices>>
        ELSE IF stop > total_z THEN <<max(0, total_z - n_slices), total_z, n_slices>>
        ELSE <<start, stop, n_slices>>

---------------------------------------------------------------------------
(* perform_projection *)

(* np.add.reduce(..., axis=0, dtype=np.uint16) at one pixel: the           *)
(* accumulator is a uint16 and wraps.                                      *)
RECURSIVE SumU16(_, _, _)
SumU16(image_stack, p, acc) ==
    IF image_stack = <<>> THEN acc
    ELSE SumU16(Tail(image_stack), p, (acc + Head(image_stack)[p]) % UInt16Mod)

RECURSIVE MaxOver(_, _, _)
MaxOver(image_stack, p, acc) ==
    IF image_stack = <<>> THEN acc
    ELSE IF Head(image_stack)[p] > acc
    THEN MaxOver(Tail(image_stack), p, Head(image_stack)[p])
    ELSE MaxOver(Tail(image_stack), p, acc)

(* np.mean(image_stack, axis=0, dtype=np.uint16): the uint16 sum, then     *)
(* true_divide by the slice count written back into the uint16 array,      *)
(* which discards the fraction.                                            *)
np_mean(image_stack) ==
    [p \in 1..Len(image_stack[1]) |-> SumU16(image_stack, p, 0) \div Len(image_stack)]

np_max(image_stack) ==
    [p \in 1..Len(image_stack[1]) |-> MaxOver(Tail(image_stack), p, image_stack[1][p])]

ProjectDefaultsToMax(image_stack) ==
    IF projection_type = "mean"
    THEN [raised |-> FALSE, value |-> np_mean(image_stack)]
    ELSE [raised |-> FALSE, value |-> np_max(image_stack)]

perform_projection(image_stack) ==
    IF projection_type = "mean"
    THEN [raised |-> FALSE, value |-> np_mean(image_stack)]
    ELSE IF projection_type = "max"
    THEN [raised |-> FALSE, value |-> np_max(image_stack)]
    ELSE [raised |-> TRUE, value |-> <<>>]

---------------------------------------------------------------------------
(* The state after __init__. *)

DefaultProjectionType == "max"
DefaultZRange == 1

InitSelf ==
    /\ report_data = <<>>
    /\ processed_count = 0

NoLocals ==
    /\ img = <<>>
    /\ t = 0
    /\ img_proj_tp = <<>>
    /\ timepoints = <<>>
    /\ n_proj_z = <<>>
    /\ proj_types = <<>>
    /\ start_z = <<>>
    /\ stop_z = <<>>

NoFolder ==
    /\ listing = <<>>
    /\ disk = <<>>
    /\ saved = <<>>
    /\ report_file = FALSE
    /\ stdout = <<>>
    /\ queue = <<>>

---------------------------------------------------------------------------
(* Single calls of the three pure methods, on arguments drawn from bounded *)
(* sets.                                                                   *)

Pixels == {1, 2}                       \* a plane of two pixels
FocusPlanes == [Pixels -> 0..MaxPix]
SamplePix == {3, 4, 40000}             \* uint16 intensities
ProjPlanes == [Pixels -> SamplePix]

RangeCalls ==
    {[fn |-> "calculate_projection_range", args |-> <<b, tz>>] :
        b \in 0..(MaxTotalZ - 1), tz \in 1..MaxTotalZ}
FocusCalls ==
    {[fn |-> "get_focused_z_slice", args |-> <<v>>] : v \in SeqsUpTo(FocusPlanes, MaxZ)}
ProjCalls ==
    {[fn |-> "perform_projection", args |-> <<s>>] : s \in SeqsUpTo(ProjPlanes, MaxZ)}

InitCalls ==
    /\ InitSelf
    /\ NoFolder
    /\ NoLocals
    /\ pc = "call"
    /\ ret = <<>>
    /\ \/ /\ call \in {c \in RangeCalls : c.args[1] < c.args[2]}
          /\ z_range \in 0..MaxZRange
          /\ projection_type = DefaultProjectionType
       \/ /\ call \in FocusCalls
          /\ z_range = DefaultZRange
          /\ projection_type = DefaultProjectionType
       \/ /\ call \in ProjCalls
          /\ z_range = DefaultZRange
          /\ projection_type \in ProjectionTypes

CallRange ==
    /\ pc = "call"
    /\ call.fn = "calculate_projection_range"
    /\ ret' = calculate_projection_range(call.args[1], call.args[2])
    /\ pc' = "returned"
    /\ UNCHANGED <<self, locals, call, listing, disk, saved, report_file, stdout, queue>>

CallFocus ==
    /\ pc = "call"
    /\ call.fn = "get_focused_z_slice"
    /\ ret' = get_focused_z_slice(call.args[1])
    /\ pc' = "returned"
    /\ UNCHANGED <<self, locals, call, listing, disk, saved, report_file, stdout, queue>>

CallProject ==
    /\ pc = "call"
    /\ call.fn = "perform_projection"
    /\ ret' = perform_projection(call.args[1])
    /\ pc' = "returned"
    /\ UNCHANGED <<self, locals, call, listing, disk, saved, report_file, stdout, queue>>

NextCalls == CallRange \/ CallFocus \/ CallProject

SpecCalls == InitCalls /\ [][NextCalls]_vars

---------------------------------------------------------------------------
(* Properties of single calls. *)

ReturnedRange == pc = "returned" /\ call.fn = "calculate_projection_range"
ReturnedFocus == pc = "returned" /\ call.fn = "get_focused_z_slice"
ReturnedProject == pc = "returned" /\ call.fn = "perform_projection"

(* C1: for 0 <= best_z < total_z and z_range >= 0 the range returned by    *)
(* calculate_projection_range satisfies 0 <= start < stop <= total_z.      *)
C1_RangeWithinDepth ==
    ReturnedRange =>
        /\ 0 <= ret[1]
        /\ ret[1] < ret[2]
        /\ ret[2] <= call.args[2]

(* A call whose nominal window leaves the volume at both ends. *)
C1_Witness ==
    /\ ReturnedRange
    /\ call.args = <<1, 2>>
    /\ z_range = 2
    /\ ret = <<0, 2, 5>>

(* C2: stop - start is the window size 2*z_range + 1 whenever total_z is   *)
(* at least the window size, also when the window is slid at a boundary,   *)
(* and is total_z otherwise.                                               *)
C2_WindowWidth ==
    ReturnedRange =>
        LET window_size == 2 * z_range + 1
        IN  ret[2] - ret[1] =
                IF call.args[2] >= window_size THEN window_size ELSE call.args[2]

(* A window of five slid back from the upper boundary of a depth of six. *)
C2_Witness ==
    /\ ReturnedRange
    /\ call.args = <<5, 6>>
    /\ z_range = 2
    /\ ret[1] = 1
    /\ ret[2] = 6

LowerBoundaryCase == ReturnedRange /\ call.args = <<0, 5>> /\ z_range = 1
UpperBoundaryCase == ReturnedRange /\ call.args = <<4, 5>> /\ z_range = 1

(* C3 as stated: best_index 0, half_width 1, total_depth 5 returns         *)
(* start = 0 and stop = 2.                                                 *)
C3_Original == LowerBoundaryCase => (ret[1] = 0 /\ ret[2] = 2)

(* C3 amended: best_index 0, half_width 1, total_depth 5 returns start = 0 *)
(* and stop = 3: the window slides forward and keeps its size of 3.        *)
C3_LowerBoundary == LowerBoundaryCase => (ret[1] = 0 /\ ret[2] = 3)

C3_Witness == LowerBoundaryCase /\ ret = <<0, 3, 3>>

(* C4 as stated: best_index 4, half_width 1, total_depth 5 returns         *)
(* start = 3 and stop = 5.                                                 *)
C4_Original == UpperBoundaryCase => (ret[1] = 3 /\ ret[2] = 5)

(* C4 amended: best_index 4, half_width 1, total_depth 5 returns start = 2 *)
(* and stop = 5: the window slides backward and keeps its size of 3.       *)
C4_UpperBoundary == UpperBoundaryCase => (ret[1] = 2 /\ ret[2] = 5)

C4_Witness == UpperBoundaryCase /\ ret = <<2, 5, 3>>

(* C6: under the 'mean' rule every output pixel is the arithmetic mean of  *)
(* that pixel over the depth axis with the fraction discarded,             *)
(* floor(sum / number_of_slices), for all uint16 pixel values.             *)
C6_MeanIsTruncatedMean ==
    (ReturnedProject /\ projection_type = "mean") =>
        LET image_stack == call.args[1]
        IN  /\ ~ret.raised
            /\ \A p \in Pixels :
                 ret.value[p] =
                    SumSeq([z \in 1..Len(image_stack) |-> image_stack[z][p]])
                        \div Len(image_stack)

(* C9: get_focused_z_slice returns one score per depth index and a best    *)
(* index in [0, Z) that is the lowest index attaining the maximum score;   *)
(* for Z = 1 the best index is 0.                                          *)
C9_FirstArgmax ==
    ReturnedFocus =>
        LET Z == Len(call.args[1])
            std_devs == ret[1]
            best_z == ret[2]
        IN  /\ Len(std_devs) = Z
            /\ best_z \in 0..(Z - 1)
            /\ \A z \in 1..Z : std_devs[z] <= std_devs[best_z + 1]
            /\ \A z \in 1..best_z : std_devs[z] < std_devs[best_z + 1]
            /\ (Z = 1 => best_z = 0)

(* A volume whose maximum score is attained twice, first at index 1. *)
C9_Witness ==
    /\ ReturnedFocus
    /\ Len(call.args[1]) = 3
    /\ ret[1][1] < ret[1][2]
    /\ ret[1][2] = ret[1][3]
    /\ ret[2] = 1

---------------------------------------------------------------------------
(* The folder.  A directory entry is what run() and imread can observe of  *)
(* it: is_file(), the suffix, whether a channel name occurs in the name,   *)
(* whether imread succeeds, and the array it returns (its number of axes   *)
(* and, for four axes, its data).  Names are numbers, ordered as the paths *)
(* are; the stem of a name is the name.                                    *)

Suffixes == {".tif", ".TIF", ".png"}
lower == [x \in Suffixes |-> IF x = ".TIF" THEN ".tif" ELSE x]

Entry(is_file, suffix, has_channel, readable, ndim, data) ==
    [is_file |-> is_file, suffix |-> suffix, has_channel |-> has_channel,
     readable |-> readable, ndim |-> ndim, data |-> data]

(* Acquisitions of T volumes of the same depth Z, over a set of planes. *)
Acquisitions(planes, maxSlices) ==
    UNION {[1..shape[1] -> [1..shape[2] -> planes]] :
             shape \in {x \in (1..maxSlices) \X (1..maxSlices) : x[1] * x[2] <= maxSlices}}

(* Entries that run() passes over. *)
OtherEntries ==
    {Entry(FALSE, ".tif", TRUE, FALSE, 0, <<>>),
     Entry(TRUE, ".png", TRUE, FALSE, 0, <<>>),
     Entry(TRUE, ".tif", FALSE, FALSE, 0, <<>>)}

(* Matching TIFF files over a set of acquisitions: unreadable, with three  *)
(* axes, or a (T, Z, Y, X) acquisition.                                    *)
TiffEntries(acqs) ==
    {Entry(TRUE, ".tif", TRUE, FALSE, 0, <<>>),
     Entry(TRUE, ".TIF", TRUE, TRUE, 3, <<>>)}
    \cup {Entry(TRUE, ".tif", TRUE, TRUE, 4, a) : a \in acqs}

FilePlanes == {<<0, 0>>, <<0, 1>>}
SampleAcqs ==
    {<< <<<<0, 1>>>> >>,
     << <<<<0, 0>>, <<0, 1>>, <<0, 0>>>>, <<<<0, 1>>, <<0, 0>>, <<0, 0>>>> >>}

(* What np.empty may hold: the placeholder plane is not initialised. *)
Uninitialised == {<<0, 0>>, <<1, 1>>}

Orderings(n) == {p \in [1..n -> 1..n] : \A i, j \in 1..n : p[i] = p[j] => i = j}

(* The state after __init__, with the folder run() will find: up to       *)
(* maxFiles of the given entries, listed in any order.                     *)
InitRun(entries, maxFiles) ==
    /\ InitSelf
    /\ NoLocals
    /\ projection_type \in ProjectionTypes
    /\ z_range \in 0..MaxZRange
    /\ \E n \in 0..maxFiles :
         /\ listing \in Orderings(n)
         /\ disk \in [1..n -> entries]
    /\ saved = <<>>
    /\ report_file = FALSE
    /\ stdout = <<>>
    /\ queue = <<>>
    /\ pc = "run"
    /\ call = <<>>
    /\ ret = <<>>

---------------------------------------------------------------------------
(* run() *)

unsorted(s) == s

RECURSIVE Insert(_, _)
Insert(x, s) ==
    IF s = <<>> THEN <<x>>
    ELSE IF x <= Head(s) THEN <<x>> \o s
    ELSE <<Head(s)>> \o Insert(x, Tail(s))

RECURSIVE sorted(_)
sorted(s) == IF s = <<>> THEN <<>> ELSE Insert(Head(s), sorted(Tail(s)))

file_path == Head(queue)

Matches(e) == lower[e.suffix] = ".tif" /\ e.has_channel

(* for file_path in sorted(self.folder.iterdir()) *)
BeginRun ==
    /\ pc = "run"
    /\ queue' = sorted(listing)
    /\ pc' = "loop"
    /\ UNCHANGED <<self, locals, harness, listing, disk, saved, report_file, stdout>>

(* if not file_path.is_file(): continue *)
SkipNotFile ==
    /\ pc = "loop"
    /\ queue # <<>>
    /\ ~disk[file_path].is_file
    /\ queue' = Tail(queue)
    /\ UNCHANGED <<self, locals, harness, listing, disk, saved, report_file, stdout, pc>>

(* a file that is no .tif or names no channel is passed over *)
SkipNoMatch ==
    /\ pc = "loop"
    /\ queue # <<>>
    /\ disk[file_path].is_file
    /\ ~Matches(disk[file_path])
    /\ queue' = Tail(queue)
    /\ UNCHANGED <<self, locals, harness, listing, disk, saved, report_file, stdout, pc>>

Enters ==
    /\ pc = "loop"
    /\ queue # <<>>
    /\ disk[file_path].is_file
    /\ Matches(disk[file_path])

DropLocals ==
    /\ img' = <<>>
    /\ t' = 0
    /\ img_proj_tp' = <<>>
    /\ timepoints' = <<>>
    /\ n_proj_z' = <<>>
    /\ proj_types' = <<>>
    /\ start_z' = <<>>
    /\ stop_z' = <<>>

(* process_tiff_file: imread raises; the except clause prints and returns *)
ReadFails ==
    /\ Enters
    /\ ~disk[file_path].readable
    /\ stdout' = Append(stdout, <<"Error processing", file_path>>)
    /\ queue' = Tail(queue)
    /\ UNCHANGED <<self, locals, harness, listing, disk, saved, report_file, pc>>

(* process_tiff_file: len(shape) <= 3 *)
SkipDimensions ==
    /\ Enters
    /\ disk[file_path].readable
    /\ disk[file_path].ndim <= 3
    /\ stdout' = Append(stdout, <<"Skipping", file_path>>)
    /\ queue' = Tail(queue)
    /\ UNCHANGED <<self, locals, harness, listing, disk, saved, report_file, pc>>

(* process_tiff_file up to the loop over the timepoints *)
OpenFile ==
    /\ Enters
    /\ disk[file_path].readable
    /\ disk[file_path].ndim > 3
    /\ img' = disk[file_path].data
    /\ processed_count' = processed_count + 1
    /\ stdout' = Append(stdout, <<"Processing TIFF", file_path>>)
    /\ \E empty \in Uninitialised : img_proj_tp' = <<empty>>
    /\ timepoints' = <<>>
    /\ n_proj_z' = <<>>
    /\ proj_types' = <<>>
    /\ start_z' = <<>>
    /\ stop_z' = <<>>
    /\ t' = 0
    /\ pc' = "timepoints"
    /\ UNCHANGED <<projection_type, z_range, report_data, harness, listing, disk,
                   saved, report_file, queue>>

LastSliceNotAdjusted(indices) == indices[Len(indices)]

(* indices[0] + 1 and indices[-1] + 1: the 1-based first and last slice *)
first_slice(indices) == indices[1] + 1
last_slice(indices) == indices[Len(indices)] + 1

(* One pass of the loop body.  Each \E binds one local of the pass, in the *)
(* order the code assigns them; the pass ends either with the plane        *)
(* concatenated or, when perform_projection raises, in the except clause,  *)
(* which prints and lets process_tiff_file return.                         *)
Timepoint ==
    /\ pc = "timepoints"
    /\ t < Len(img)
    /\ \E img_tp \in {img[t + 1]} :
       \E best_z \in {get_focused_z_slice(img_tp)[2]} :
       \E r \in {calculate_projection_range(best_z, Len(img[1]))} :
       \E indices \in {range(r[1], r[2])} :
       \E img_proj \in {perform_projection(take(img_tp, indices))} :
          \/ /\ ~img_proj.raised
             /\ timepoints' = Append(timepoints, t + 1)
             /\ proj_types' = Append(proj_types, projection_type)
             /\ n_proj_z' = Append(n_proj_z, r[3])
             /\ start_z' = Append(start_z, first_slice(indices))
             /\ stop_z' = Append(stop_z, last_slice(indices))
             /\ img_proj_tp' = Append(img_proj_tp, img_proj.value)
             /\ t' = t + 1
             /\ UNCHANGED <<stdout, pc, queue, img>>
          \/ /\ img_proj.raised
             /\ stdout' = Append(stdout, <<"Error processing", file_path>>)
             /\ DropLocals
             /\ queue' = Tail(queue)
             /\ pc' = "loop"
    /\ UNCHANGED <<self, harness, listing, disk, saved, report_file>>

AuditKeys == {"Timepoint", "Numb projected z", "Type of proj", "Start z", "Stop z"}

ReportEntry ==
    [k \in AuditKeys |->
        CASE k = "Timepoint" -> timepoints
          [] k = "Numb projected z" -> n_proj_z
          [] k = "Type of proj" -> proj_types
          [] k = "Start z" -> start_z
          [] k = "Stop z" -> stop_z]

KeepPlaceholder(stack) == stack

(* img_proj_tp[1:] *)
DropPlaceholder(stack) == Tail(stack)

(* after the loop: drop the placeholder, imsave, self.report_data[stem] *)
FinishFile ==
    /\ pc = "timepoints"
    /\ t >= Len(img)
    /\ saved' = (file_path :> DropPlaceholder(img_proj_tp)) @@ saved
    /\ report_data' = (file_path :> ReportEntry) @@ report_data
    /\ DropLocals
    /\ queue' = Tail(queue)
    /\ pc' = "loop"
    /\ UNCHANGED <<projection_type, z_range, processed_count, harness, listing, disk,
                   report_file, stdout>>

(* save_report with nothing to report *)
SaveReportEmpty ==
    /\ pc = "loop"
    /\ queue = <<>>
    /\ DOMAIN report_data = {}
    /\ stdout' = Append(stdout, <<"No data to report", 0>>)
    /\ pc' = "done"
    /\ UNCHANGED <<self, locals, harness, listing, disk, saved, report_file, queue>>

(* save_report: one sheet per entry of report_data *)
SaveReport ==
    /\ pc = "loop"
    /\ queue = <<>>
    /\ DOMAIN report_data # {}
    /\ report_file' = TRUE
    /\ stdout' = Append(stdout, <<"Report saved", 0>>)
    /\ pc' = "done"
    /\ UNCHANGED <<self, locals, harness, listing, disk, saved, queue>>

Next ==
    \/ BeginRun
    \/ SkipNotFile
    \/ SkipNoMatch
    \/ ReadFails
    \/ SkipDimensions
    \/ OpenFile
    \/ Timepoint
    \/ FinishFile
    \/ SaveReportEmpty
    \/ SaveReport

(* A batch over a folder of sample files. *)
Init == InitRun(OtherEntries \cup TiffEntries(SampleAcqs), MaxFiles)
Spec == Init /\ [][Next]_vars
FairSpec == Spec /\ WF_vars(Next)

(* One file, over every acquisition of the bounded size. *)
InitFile ==
    InitRun(OtherEntries \cup TiffEntries(Acquisitions(FilePlanes, MaxSlices)), 1)
SpecFile == InitFile /\ [][Next]_vars
FairSpecFile == SpecFile /\ WF_vars(Next)

---------------------------------------------------------------------------
(* Properties of process_tiff_file and run(). *)

Supported == projection_type \in {"max", "mean"}

(* The 0-based half-open range the range selection returns for a volume. *)
RangeOf(volume) ==
    calculate_projection_range(get_focused_z_slice(volume)[2], Len(volume))

ExampleVolume == <<<<0, 0>>, <<0, 1>>, <<0, 0>>>>

(* C5: the audit entry of timepoint t (0-based) is Timepoint = t + 1,      *)
(* Numb projected z = the requested window size 2*z_range + 1, Type of     *)
(* proj = the configured rule, Start z = start + 1, Stop z = stop, for the *)
(* range (start, stop) selected for that timepoint; Z = 3 with best index  *)
(* 1, half-width 1 and rule 'max' at t = 0 gives {1, 3, 'max', 1, 3}.      *)
C5_AuditEntry ==
    \A s \in DOMAIN report_data :
        LET acq == disk[s].data
            e == report_data[s]
        IN  /\ \A tp \in 0..(Len(acq) - 1) :
                 /\ e["Timepoint"][tp + 1] = tp + 1
                 /\ e["Numb projected z"][tp + 1] = 2 * z_range + 1
                 /\ e["Type of proj"][tp + 1] = projection_type
                 /\ e["Start z"][tp + 1] = RangeOf(acq[tp + 1])[1] + 1
                 /\ e["Stop z"][tp + 1] = RangeOf(acq[tp + 1])[2]
            /\ (acq[1] = ExampleVolume /\ z_range = 1 /\ projection_type = "max") =>
                 /\ e["Timepoint"][1] = 1
                 /\ e["Numb projected z"][1] = 3
                 /\ e["Type of proj"][1] = "max"
                 /\ e["Start z"][1] = 1
                 /\ e["Stop z"][1] = 3

(* The example of the claim, reported. *)
C5_Witness ==
    /\ 1 \in DOMAIN report_data
    /\ disk[1].data[1] = ExampleVolume
    /\ z_range = 1
    /\ projection_type = "max"
    /\ report_data[1]["Stop z"][1] = 3

(* C7: with a rule that is neither 'max' nor 'mean' the projection call    *)
(* raises instead of defaulting, process_tiff_file returns through its     *)
(* except clause, and that step leaves the report entries, the counter and *)
(* the saved outputs as they were, with no entry and no output for the     *)
(* failing acquisition.                                                    *)
C7_UnsupportedRuleFails ==
    [][(pc = "timepoints" /\ ~Supported) =>
          /\ pc' = "loop"
          /\ stdout' = Append(stdout, <<"Error processing", file_path>>)
          /\ report_data' = report_data
          /\ processed_count' = processed_count
          /\ saved' = saved
          /\ report_file' = report_file
          /\ file_path \notin DOMAIN report_data'
          /\ file_path \notin DOMAIN saved']_vars

(* The second acquisition of a 'median' run has failed as the first did. *)
C7_Witness ==
    /\ projection_type = "median"
    /\ pc = "loop"
    /\ queue = <<>>
    /\ processed_count = 2
    /\ stdout = <<<<"Processing TIFF", 1>>, <<"Error processing", 1>>,
                  <<"Processing TIFF", 2>>, <<"Error processing", 2>>>>
    /\ DOMAIN report_data = {}
    /\ DOMAIN saved = {}

(* The names run() has handed to process_tiff_file, in order, read off the *)
(* printed lines: a call prints 'Skipping', 'Processing TIFF' or, when     *)
(* imread raises, 'Error processing' as its first line.                    *)
StartsAttempt(i) ==
    \/ stdout[i][1] \in {"Processing TIFF", "Skipping"}
    \/ /\ stdout[i][1] = "Error processing"
       /\ ~(i > 1 /\ stdout[i - 1] = <<"Processing TIFF", stdout[i][2]>>)

RECURSIVE AttemptedFrom(_)
AttemptedFrom(i) ==
    IF i > Len(stdout) THEN <<>>
    ELSE (IF StartsAttempt(i) THEN <<stdout[i][2]>> ELSE <<>>) \o AttemptedFrom(i + 1)

IsMatching(name) == disk[name].is_file /\ disk[name].suffix \in {".tif", ".TIF"} /\ disk[name].has_channel
Succeeds(name) ==
    IsMatching(name) /\ disk[name].readable /\ disk[name].ndim = 4 /\ Supported

MatchingInNameOrder == SelectSeq([i \in 1..Len(listing) |-> i], IsMatching)

C8_Completed ==
    pc = "done" =>
        /\ AttemptedFrom(1) = MatchingInNameOrder
        /\ \A name \in DOMAIN disk :
             /\ (name \in DOMAIN report_data) = Succeeds(name)
             /\ (name \in DOMAIN saved) = Succeeds(name)
        /\ stdout[Len(stdout)][1] \in {"Report saved", "No data to report"}

(* C8: a file that fails or is skipped never aborts the batch: every       *)
(* matching file is attempted exactly once in sorted name order, each file *)
(* that succeeds has its report entry, and the run reaches save_report and *)
(* completes.                                                              *)
C8_BatchCompletes == []C8_Completed /\ <>(pc = "done")

(* A batch listed out of order whose first file fails and whose second     *)
(* succeeds.                                                               *)
C8_Witness ==
    /\ pc = "done"
    /\ listing = <<2, 1>>
    /\ IsMatching(1)
    /\ ~disk[1].readable
    /\ Succeeds(2)
    /\ DOMAIN report_data = {2}
    /\ report_file

(* The projection of timepoint tp of an acquisition. *)
PlaneOf(volume) ==
    perform_projection(take(volume, range(RangeOf(volume)[1], RangeOf(volume)[2]))).value

C10_Output ==
    \A s \in DOMAIN saved :
        LET acq == disk[s].data
            T == Len(acq)
        IN  /\ Len(saved[s]) = T
            /\ \A tp \in 1..T : saved[s][tp] = PlaneOf(acq[tp])
            /\ s \in DOMAIN report_data
            /\ \A k \in AuditKeys : Len(report_data[s][k]) = T
            /\ report_data[s]["Timepoint"] = [i \in 1..T |-> i]

(* C10: processing a well-formed acquisition of T timepoints under a       *)
(* supported rule terminates after its T passes: the output stack holds    *)
(* exactly T planes, the placeholder removed, plane t the projection of    *)
(* timepoint t, and each audit list holds T entries, Timepoint = 1..T.     *)
C10_FileCompletes ==
    /\ []C10_Output
    /\ (pc = "timepoints" /\ Supported) ~> (pc = "loop")
    /\ [][(pc = "timepoints" /\ Supported /\ pc' = "loop") =>
            (t = Len(img) /\ file_path \in DOMAIN saved')]_vars

(* An acquisition of two timepoints whose planes differ, saved. *)
C10_Witness ==
    /\ 1 \in DOMAIN saved
    /\ Len(disk[1].data) = 2
    /\ Len(saved[1]) = 2
    /\ saved[1][1] # saved[1][2]

===========================================================================
